---- MODULE Spec2Model ----
(***************************************************************************)
(* fireband: the NodeJS bandwidth collector of src/fireband.js.            *)
(*                                                                         *)
(* A log line is a sequence of one-character strings, so that the regular  *)
(* expressions of the source are matched character by character.  A row is *)
(* the record the collector buffers and later hands to BigQuery.  Time is  *)
(* an integer number of milliseconds (Date.now()).                         *)
(***************************************************************************)
EXTENDS Integers, Sequences, FiniteSets, TLC

(***************************************************************************)
(* Characters and strings                                                  *)
(***************************************************************************)
Digits == {"0","1","2","3","4","5","6","7","8","9"}

Letters == {"a","b","c","d","e","f","g","h","i","j","k","l","m","n","o","p","q","r","s","t","u","v","w","x","y","z","A","B","C","D","E","F","G","H","I","J","K","L","M","N","O","P","Q","R","S","T","U","V","W","X","Y","Z"}

\* \w of a JavaScript regular expression: [A-Za-z0-9_]
WordChars == Letters \cup Digits \cup {"_"}

\* the characters the "." of a JavaScript regular expression does not match
LineTerminators == {"\n", "\r"}

DigitVal == [ch \in Digits |-> CHOOSE n \in 0..9 : ToString(n) = ch]

\* String.prototype.startsWith, at 1-based position i
StartsWithAt(s, i, lit) == i + Len(lit) - 1 <= Len(s) /\ SubSeq(s, i, i + Len(lit) - 1) = lit

\* end (exclusive) of the longest run of characters of S that starts at i:
\* where a greedy X* / X+ over the class S stops
RECURSIVE RunEnd(_, _, _)
RunEnd(s, i, S) == IF i > Len(s) \/ s[i] \notin S THEN i ELSE RunEnd(s, i + 1, S)

\* the same for a negated class [^...]
RECURSIVE RunEndNot(_, _, _)
RunEndNot(s, i, S) == IF i > Len(s) \/ s[i] \in S THEN i ELSE RunEndNot(s, i + 1, S)

\* the value null (a failed match) and the value undefined (a group that did
\* not take part in the match, a function that returned nothing)
Null == [ok |-> FALSE]

Undefined == [def |-> FALSE]

Str(s) == [def |-> TRUE, s |-> s]

Match(g1, g2, g3) == [ok |-> TRUE, g1 |-> g1, g2 |-> g2, g3 |-> g3]

\* JavaScript truthiness of a string-or-undefined value
Truthy(v) == v.def /\ v.s # <<>>

(***************************************************************************)
(* The constants of the source                                             *)
(***************************************************************************)
PROTOCOL_PATH == <<"/","$","p","r","o","t","o","c","o","l">>

DEBUG_PATH == <<"/","$","d","e","b","u","g">>

\* "event: /.info/serverTimeOffset:value:"
LitTimeOffset == <<"e","v","e","n","t",":"," ","/",".","i","n","f","o","/","s","e","r","v","e","r","T","i","m","e","O","f","f","s","e","t",":","v","a","l","u","e",":">>

\* "from server:" and "handleServerMessage", the alternatives of READ_REGEX
LitFromServer == <<"f","r","o","m"," ","s","e","r","v","e","r",":">>

LitHandle == <<"h","a","n","d","l","e","S","e","r","v","e","r","M","e","s","s","a","g","e">>

\* 'from server: ', the string details[1] is compared with
LitFromServerSp == <<"f","r","o","m"," ","s","e","r","v","e","r",":"," ">>

\* {"p":"
LitReadPath == <<"{","\"","p","\"",":","\"">>

\* {"r":     ,"a":"     ","b":{     "p":"
LitWriteR == <<"{","\"","r","\"",":">>

LitWriteA == <<",","\"","a","\"",":","\"">>

LitWriteB == <<"\"",",","\"","b","\"",":","{">>

LitWriteP == <<"\"","p","\"",":","\"">>

(***************************************************************************)
(* The regular expressions: message.match(R) as an operator that yields    *)
(* Null or the groups of the match                                         *)
(***************************************************************************)
\* /^event: \/\.info\/serverTimeOffset:value:(-?\d+)/
TIME_OFFSET_REGEX(s) ==
  LET a == Len(LitTimeOffset) + 1
      b == IF a <= Len(s) /\ s[a] = "-" THEN a + 1 ELSE a
      e == RunEnd(s, b, Digits)
  IN IF StartsWithAt(s, 1, LitTimeOffset) /\ e > b
       THEN Match(Str(SubSeq(s, a, e - 1)), Undefined, Undefined)
       ELSE Null

\* /^p:\d+: ([^{]*)(\{.*)/
LOG_REGEX(s) ==
  LET d == RunEnd(s, 3, Digits)
      a == d + 2
      b == RunEndNot(s, a, {"{"})
      e == RunEndNot(s, b + 1, LineTerminators)
  IN IF StartsWithAt(s, 1, <<"p", ":">>) /\ d > 3 /\ StartsWithAt(s, d, <<":", " ">>) /\ b <= Len(s)
       THEN Match(Str(SubSeq(s, a, b - 1)), Str(SubSeq(s, b, e - 1)), Undefined)
       ELSE Null

\* one alternative of READ_REGEX followed by " (\w*)"
ReadAlt(s, alt) ==
  LET a == Len(alt) + 2
  IN IF StartsWithAt(s, 1, alt) /\ StartsWithAt(s, Len(alt) + 1, <<" ">>)
       THEN Match(Str(alt), Str(SubSeq(s, a, RunEnd(s, a, WordChars) - 1)), Undefined)
       ELSE Null

\* /^(from server:|handleServerMessage) (\w*)/
READ_REGEX(s) == IF ReadAlt(s, LitFromServer).ok THEN ReadAlt(s, LitFromServer) ELSE ReadAlt(s, LitHandle)

\* /^\{"p":"([^"]*)"/
READ_PATH_REGEX(s) ==
  LET a == Len(LitReadPath) + 1
      e == RunEndNot(s, a, {"\""})
  IN IF StartsWithAt(s, 1, LitReadPath) /\ e <= Len(s)
       THEN Match(Str(SubSeq(s, a, e - 1)), Undefined, Undefined)
       ELSE Null

\* /^\{"r":\d+,"a":"(\w+)","b":\{("p":"([^"]+))?"/
\* The optional group is tried first; when it or the quote after it fails,
\* the match goes on without the group, and groups 2 and 3 are undefined.
WRITE_REGEX(s) ==
  LET r == Len(LitWriteR) + 1
      d == RunEnd(s, r, Digits)
      a == d + Len(LitWriteA)
      w == RunEnd(s, a, WordChars)
      q == w + Len(LitWriteB)
      p == q + Len(LitWriteP)
      e == RunEndNot(s, p, {"\""})
      head == /\ StartsWithAt(s, 1, LitWriteR) /\ d > r
              /\ StartsWithAt(s, d, LitWriteA) /\ w > a
              /\ StartsWithAt(s, w, LitWriteB)
      group == StartsWithAt(s, q, LitWriteP) /\ e > p /\ e <= Len(s)
  IN IF head /\ group
       THEN Match(Str(SubSeq(s, a, w - 1)), Str(SubSeq(s, q, e - 1)), Str(SubSeq(s, p, e - 1)))
       ELSE IF head /\ StartsWithAt(s, q, <<"\"">>)
         THEN Match(Str(SubSeq(s, a, w - 1)), Undefined, Undefined)
         ELSE Null

\* the value of a string of decimal digits
RECURSIVE DecValue(_)
DecValue(s) == IF s = <<>> THEN 0 ELSE 10 * DecValue(SubSeq(s, 1, Len(s) - 1)) + DigitVal[s[Len(s)]]

\* parseInt(s, 10) of a string of the form -?\d+
ParseInt(s) == IF s # <<>> /\ s[1] = "-" THEN 0 - DecValue(Tail(s)) ELSE DecValue(s)

(***************************************************************************)
(* Configuration and bounds                                                *)
(***************************************************************************)
\* the collector objects a process may hold
Instances == {1, 2}

\* this._options of each collector, as module.exports builds it
Options == [c \in Instances |-> [datasetId |-> "bandwidth", tablePrefix |-> "raw", tag |-> IF c = 1 THEN "web" ELSE "", sizeFlushThreshold |-> 100, forcedFlushInterval |-> 2]]

\* Date.now() when the collectors are constructed
StartTimes == {1000}

\* the UTC calendar dates of the runs (getUTCFullYear, getUTCMonth, getUTCDate)
Dates == {[year |-> 2016, month |-> 10, date |-> 2]}

\* the UTC calendar dates of a run of SpecDays: 12 January, 2 November
\* and 12 November 2016 (getUTCMonth counts from 0)
Days == {[year |-> 2016, month |-> 0, date |-> 12], [year |-> 2016, month |-> 10, date |-> 2], [year |-> 2016, month |-> 10, date |-> 12]}

\* rows pushed to one collector in a run of Spec
MaxPushed == 3

\* rows pushed to one collector, and milliseconds, in a run of SpecTime
TimeRows == 2

TimeHorizon == 5

\* rows pushed to one collector in a run of SpecExample
ExampleRows == 3

\* rows pushed to one collector in a run of SpecLines
LineRows == 1

\* rows pushed to one collector in a run of SpecParse
ParseRows == 1

\* rows pushed to one collector in a run of SpecDays
DayRows == 2

\* rows pushed to one collector in a run of SpecSum
SumRows == 3

\* rows pushed to one collector, and milliseconds, in a run of SpecTwo
TwoRows == 1

TwoHorizon == 5

(***************************************************************************)
(* The classifier: _parseReadMessage and _parseWriteMessage.  A call       *)
(* yields [threw, ret, out]: whether it threw, what it returned, and the   *)
(* diagnostics it wrote to console.log.                                    *)
(***************************************************************************)
Return(v, out) == [threw |-> FALSE, ret |-> v, out |-> out]

Throw(out) == [threw |-> TRUE, ret |-> Undefined, out |-> out]

Row(op, size, path) == [def |-> TRUE, op |-> op, size |-> size, path |-> path]

\* a _parseReadMessage that leaves the message type out of the size
parseReadMessage_flatSize(prefix, value) ==
  LET details == READ_REGEX(prefix)
      messageType == IF details.g1.s = LitFromServerSp THEN <<>> ELSE details.g2.s
      size == Len(value) + 16
      pathDetails == READ_PATH_REGEX(value)
  IN IF ~details.ok THEN Return(Undefined, <<>>)
     ELSE IF messageType \in {<<"d">>, <<"m">>}
       THEN IF ~pathDetails.ok
              THEN Return(Undefined, <<"No path found in message:">>)
              ELSE Return(Row("r", size, <<"/">> \o pathDetails.g1.s), <<>>)
     ELSE IF messageType = <<>> THEN Return(Row("r", size, PROTOCOL_PATH), <<>>)
     ELSE IF messageType = <<"s", "d">> THEN Return(Row("r", size, DEBUG_PATH), <<>>)
     ELSE Return(Undefined, <<"Unknown write type:">>)

\* a _parseReadMessage that takes the path as the line carries it
parseReadMessage_asCarried(prefix, value) ==
  LET details == READ_REGEX(prefix)
      messageType == IF details.g1.s = LitFromServerSp THEN <<>> ELSE details.g2.s
      size == Len(value) + 16 + (IF messageType # <<>> THEN 7 + Len(messageType) ELSE 0)
      pathDetails == READ_PATH_REGEX(value)
  IN IF ~details.ok THEN Return(Undefined, <<>>)
     ELSE IF messageType \in {<<"d">>, <<"m">>}
       THEN IF ~pathDetails.ok
              THEN Return(Undefined, <<"No path found in message:">>)
              ELSE Return(Row("r", size, pathDetails.g1.s), <<>>)
     ELSE IF messageType = <<>> THEN Return(Row("r", size, PROTOCOL_PATH), <<>>)
     ELSE IF messageType = <<"s", "d">> THEN Return(Row("r", size, DEBUG_PATH), <<>>)
     ELSE Return(Undefined, <<"Unknown write type:">>)

parseReadMessage(prefix, value) ==
  LET details == READ_REGEX(prefix)
      messageType == IF details.g1.s = LitFromServerSp THEN <<>> ELSE details.g2.s
      size == Len(value) + 16 + (IF messageType # <<>> THEN 7 + Len(messageType) ELSE 0)
      pathDetails == READ_PATH_REGEX(value)
  IN IF ~details.ok THEN Return(Undefined, <<>>)
     ELSE IF messageType \in {<<"d">>, <<"m">>}
       THEN IF ~pathDetails.ok
              THEN Return(Undefined, <<"No path found in message:">>)
              ELSE Return(Row("r", size, <<"/">> \o pathDetails.g1.s), <<>>)
     ELSE IF messageType = <<>> THEN Return(Row("r", size, PROTOCOL_PATH), <<>>)
     ELSE IF messageType = <<"s", "d">> THEN Return(Row("r", size, DEBUG_PATH), <<>>)
     ELSE Return(Undefined, <<"Unknown write type:">>)

\* a _parseWriteMessage that puts "/" before the path, as reads do
parseWriteMessage_prefixed(value) ==
  LET details == WRITE_REGEX(value)
      messageType == details.g1.s
      path == details.g3
  IN IF details = Null THEN Throw(<<>>)
     ELSE IF ~details.ok THEN Return(Undefined, <<"Failed to match write log:">>)
     ELSE IF messageType \in {<<"m">>, <<"p">>}
       THEN IF ~Truthy(path)
              THEN Return(Undefined, <<"No path found in message:">>)
              ELSE Return(Row("w", Len(value) + 16, <<"/">> \o path.s), <<>>)
     ELSE IF messageType \in {<<"q">>, <<"l">>, <<"n">>, <<"a", "u", "t", "h">>, <<"s">>}
       THEN Return(Row("w", Len(value) + 16, PROTOCOL_PATH), <<>>)
     ELSE Return(Undefined, <<"Unknown write type:">>)

\* details[1] and details[3] are read before details is tested: on a failed
\* match the read of details[1] throws a TypeError, and the test that
\* follows is never reached with a null details.
parseWriteMessage(value) ==
  LET details == WRITE_REGEX(value)
      messageType == details.g1.s
      path == details.g3
  IN IF details = Null THEN Throw(<<>>)
     ELSE IF ~details.ok THEN Return(Undefined, <<"Failed to match write log:">>)
     ELSE IF messageType \in {<<"m">>, <<"p">>}
       THEN IF ~Truthy(path)
              THEN Return(Undefined, <<"No path found in message:">>)
              ELSE Return(Row("w", Len(value) + 16, path.s), <<>>)
     ELSE IF messageType \in {<<"q">>, <<"l">>, <<"n">>, <<"a", "u", "t", "h">>, <<"s">>}
       THEN Return(Row("w", Len(value) + 16, PROTOCOL_PATH), <<>>)
     ELSE Return(Undefined, <<"Unknown write type:">>)

(***************************************************************************)
(* The input lines                                                         *)
(***************************************************************************)
\* {"r":1,"a":"p","b":{"p":"/a/b/c"}}   (34 characters)
ValSet == <<"{","\"","r","\"",":","1",",","\"","a","\"",":","\"","p","\"",",","\"","b","\"",":","{","\"","p","\"",":","\"","/","a","/","b","/","c","\"","}","}">>

\* {"p":"a/b/cd","d":{"x":1}}   (26 characters)
ValData == <<"{","\"","p","\"",":","\"","a","/","b","/","c","d","\"",",","\"","d","\"",":","{","\"","x","\"",":","1","}","}">>

\* {"r":2,"a":"q","b":{"p":"/a/b/c/de","h":""}}   (44 characters)
ValListen == <<"{","\"","r","\"",":","2",",","\"","a","\"",":","\"","q","\"",",","\"","b","\"",":","{","\"","p","\"",":","\"","/","a","/","b","/","c","/","d","e","\"",",","\"","h","\"",":","\"","\"","}","}">>

\* {"r":1,"b":{}}   (14 characters)
ValResp == <<"{","\"","r","\"",":","1",",","\"","b","\"",":","{","}","}">>

\* {"d":{"x":1}}   (13 characters)
ValNoPathRead == <<"{","\"","d","\"",":","{","\"","x","\"",":","1","}","}">>

\* {"r":3,"a":"zz","b":{"p":"/a"}}   (31 characters)
ValUnknownWrite == <<"{","\"","r","\"",":","3",",","\"","a","\"",":","\"","z","z","\"",",","\"","b","\"",":","{","\"","p","\"",":","\"","/","a","\"","}","}">>

\* {"r":3,"a":"p","b":{"d":1}}   (27 characters)
ValNoPathWrite == <<"{","\"","r","\"",":","3",",","\"","a","\"",":","\"","p","\"",",","\"","b","\"",":","{","\"","d","\"",":","1","}","}">>

\* {"r":3,"a":"m","b":{"p":"","d":1}}   (34 characters)
ValEmptyPathWrite == <<"{","\"","r","\"",":","3",",","\"","a","\"",":","\"","m","\"",",","\"","b","\"",":","{","\"","p","\"",":","\"","\"",",","\"","d","\"",":","1","}","}">>

\* {"r":4,"a":"unauth","b":{}}   (27 characters)
ValUnauth == <<"{","\"","r","\"",":","4",",","\"","a","\"",":","\"","u","n","a","u","t","h","\"",",","\"","b","\"",":","{","}","}">>
\* {"r":5,"a":"p","b":{}}   (22 characters)
ValSetNoBody == <<"{","\"","r","\"",":","5",",","\"","a","\"",":","\"","p","\"",",","\"","b","\"",":","{","}","}">>

\* Listen called for /a    (21 characters)
LitRedundant == <<"L","i","s","t","e","n"," ","c","a","l","l","e","d"," ","f","o","r"," ","/","a"," ">>

\* Firebase connected   (18 characters)
LineNoise == <<"F","i","r","e","b","a","s","e"," ","c","o","n","n","e","c","t","e","d">>

\* "p:<n>: <prefix><value>"
LogLine(n, prefix, value) == <<"p", ":">> \o n \o <<":", " ">> \o prefix \o value

\* "handleServerMessage <type> "
Handled(type) == LitHandle \o <<" ">> \o type \o <<" ">>

\* "from server: <rest>"
FromServer(rest) == LitFromServer \o <<" ">> \o rest

\* "event: /.info/serverTimeOffset:value:<digits>"
OffsetLine(digits) == LitTimeOffset \o digits

LineSet == LogLine(<<"0">>, <<>>, ValSet)

LineData == LogLine(<<"1">>, Handled(<<"d">>), ValData)

LineListen == LogLine(<<"2">>, <<>>, ValListen)

LineResp == LogLine(<<"1", "2">>, FromServer(<<>>), ValResp)

LineUnauth == LogLine(<<"3">>, <<>>, ValUnauth)

LineOffset7 == OffsetLine(<<"7">>)

LineOffsetMinus5 == OffsetLine(<<"-", "5">>)

LineMoved == LogLine(<<"1">>, Handled(<<"m">>), ValData)

LineDebug == LogLine(<<"1">>, Handled(<<"s", "d">>), ValResp)

LineFromServerTyped == LogLine(<<"1">>, FromServer(<<"d", " ">>), ValData)

LineRedundant == LogLine(<<"1">>, LitRedundant, ValData)

LineUnknownRead == LogLine(<<"4">>, Handled(<<"z", "z">>), ValData)

LineReadNoPath == LogLine(<<"5">>, Handled(<<"d">>), ValNoPathRead)

LineMovedNoPath == LogLine(<<"5">>, Handled(<<"m">>), ValNoPathRead)

LineUnknownWrite == LogLine(<<"6">>, <<>>, ValUnknownWrite)

LineWriteNoPath == LogLine(<<"7">>, <<>>, ValNoPathWrite)

LineWriteEmptyPath == LogLine(<<"8">>, <<>>, ValEmptyPathWrite)

LineSetNoBody == LogLine(<<"9">>, <<>>, ValSetNoBody)

LineOffset12 == OffsetLine(<<"1", "2">>)

LineOffsetNoDigits == OffsetLine(<<"-">>)

\* {"p":"","d":1}   (14 characters)
ValDataRoot == <<"{","\"","p","\"",":","\"","\"",",","\"","d","\"",":","1","}">>

\* {"r":6,"a":"m","b":{"p":"/a/b","d":{"x":1}}}   (44 characters)
ValUpdate == <<"{","\"","r","\"",":","6",",","\"","a","\"",":","\"","m","\"",",","\"","b","\"",":","{","\"","p","\"",":","\"","/","a","/","b","\"",",","\"","d","\"",":","{","\"","x","\"",":","1","}","}","}">>

\* {"r":7,"a":"auth","b":{"cred":"x"}}   (35 characters)
ValAuth == <<"{","\"","r","\"",":","7",",","\"","a","\"",":","\"","a","u","t","h","\"",",","\"","b","\"",":","{","\"","c","r","e","d","\"",":","\"","x","\"","}","}">>

\* {"r":8,"a":"s","b":{"c":{"sdk.js":1}}}   (38 characters)
ValStats == <<"{","\"","r","\"",":","8",",","\"","a","\"",":","\"","s","\"",",","\"","b","\"",":","{","\"","c","\"",":","{","\"","s","d","k",".","j","s","\"",":","1","}","}","}">>

\* {"r":9,"a":"n","b":{"p":"/a/b"}}   (32 characters)
ValUnlisten == <<"{","\"","r","\"",":","9",",","\"","a","\"",":","\"","n","\"",",","\"","b","\"",":","{","\"","p","\"",":","\"","/","a","/","b","\"","}","}">>

\* {"r":9,"a":"l","b":{"p":"/a/b"}}   (32 characters)
ValListenL == <<"{","\"","r","\"",":","9",",","\"","a","\"",":","\"","l","\"",",","\"","b","\"",":","{","\"","p","\"",":","\"","/","a","/","b","\"","}","}">>

\* {"r":1,"a":"p","b":{"p":"a/b"}}   (31 characters)
ValSetBare == <<"{","\"","r","\"",":","1",",","\"","a","\"",":","\"","p","\"",",","\"","b","\"",":","{","\"","p","\"",":","\"","a","/","b","\"","}","}">>

LineDataRoot == LogLine(<<"1">>, Handled(<<"d">>), ValDataRoot)

LineUpdate == LogLine(<<"6">>, <<>>, ValUpdate)

LineAuth == LogLine(<<"7">>, <<>>, ValAuth)

LineStats == LogLine(<<"8">>, <<>>, ValStats)

LineUnlisten == LogLine(<<"9">>, <<>>, ValUnlisten)

LineListenL == LogLine(<<"9">>, <<>>, ValListenL)

LineSetBare == LogLine(<<"1">>, <<>>, ValSetBare)

\* the lines a run of Spec draws from: two that yield a row, of 50 and 60
\* bytes, and one on which the write pattern fails
Lines == {LineData, LineListen, LineUnauth}

\* the lines a run of SpecTime draws from
TimeLines == {LineData, LineUnauth}

\* the lines a run of SpecExample draws from: a read and a write of 50 bytes
ExampleLines == {LineData, LineSet}

\* the lines a run of SpecLines draws from: every kind of line
AllLines == {LineSet, LineData, LineMoved, LineListen, LineResp, LineDebug, LineFromServerTyped, LineRedundant, LineNoise, LineUnknownRead, LineReadNoPath, LineMovedNoPath, LineUnknownWrite, LineWriteNoPath, LineWriteEmptyPath, LineSetNoBody, LineUnauth, LineOffset7, LineOffsetMinus5, LineOffset12, LineOffsetNoDigits}

\* the lines a run of SpecSum draws from: they yield rows of 30 and 50
\* bytes, so that up to three rows are pending below the threshold of 100
SumLines == {LineResp, LineData}

\* the lines a run of SpecTwo draws from
TwoLines == {LineData}

\* the lines a run of SpecDays draws from
DayLines == {LineData}

\* the lines a run of SpecParse draws from: the log-record lines of every kind
ParseLines == {LineSet, LineSetBare, LineUpdate, LineListen, LineListenL, LineUnlisten, LineAuth, LineStats, LineData, LineDataRoot, LineMoved, LineResp, LineDebug, LineFromServerTyped, LineRedundant, LineUnknownRead, LineReadNoPath, LineMovedNoPath, LineUnknownWrite, LineWriteNoPath, LineWriteEmptyPath, LineSetNoBody, LineUnauth}

\* let row = prefix ? this._parseReadMessage(prefix, value) : this._parseWriteMessage(value)
parseRow(prefix, value) == IF prefix # <<>> THEN parseReadMessage(prefix, value) ELSE parseWriteMessage(value)

\* what _collectLog computes from the line alone: the match of LOG_REGEX,
\* the match of TIME_OFFSET_REGEX when that one failed, the outcome of the
\* parse when it did not
Scan(message) ==
  LET match == LOG_REGEX(message)
  IN [match |-> match,
      offset |-> IF match.ok THEN Null ELSE TIME_OFFSET_REGEX(message),
      parsed |-> IF match.ok THEN parseRow(match.g1.s, match.g2.s) ELSE Return(Undefined, <<>>)]

\* Scan of every input line, as a function given by its graph: each line
\* is scanned once
Scanned == [m \in AllLines \cup ParseLines |-> Scan(m)] @@ <<>>

(***************************************************************************)
(* The collector's state.  lastFlushTimestamp and serverTimeOffset are the *)
(* two variables of the module, one of each per process; data and dataSize *)
(* are this._data and this._dataSize of each collector.  batches is what   *)
(* table.insert has been called with, in call order, and inflight the      *)
(* calls whose callback has not run yet.  pushed is the history of the     *)
(* rows given to _pushRow, with the instant of each push, and last         *)
(* describes the most recent call: both are history that no code reads.    *)
(***************************************************************************)
VARIABLES now, utcDate, live, alive, lastFlushTimestamp, serverTimeOffset, data, dataSize, nextTick, batches, inflight, pushed, last

vars == <<now, utcDate, live, alive, lastFlushTimestamp, serverTimeOffset, data, dataSize, nextTick, batches, inflight, pushed, last>>

\* the state a call works on, with what the call has done so far: the
\* diagnostics written, the calls of flush and _pushRow made, whether an
\* exception is on its way up, whether one was caught
Heap == [data |-> data, dataSize |-> dataSize, lastFlushTimestamp |-> lastFlushTimestamp, serverTimeOffset |-> serverTimeOffset, batches |-> batches, inflight |-> inflight, pushed |-> pushed, out |-> <<>>, flushes |-> 0, pushes |-> 0, threw |-> FALSE, caught |-> FALSE, ret |-> <<>>]

\* what a call reads of its environment: the clock, the calendar date, and
\* whether the sink's insert throws when called
Env(insertThrows) == [now |-> now, date |-> utcDate, insertThrows |-> insertThrows]

Log(h, msg) == [h EXCEPT !.out = Append(@, msg)]

\* a _takeData that returns the rows and leaves them in the buffer
takeData_keepsRows(h, this) == [h EXCEPT !.ret = h.data[this], !.dataSize[this] = 0]

\* a _takeData that leaves the accumulated size as it is
takeData_keepsSize(h, this) == [h EXCEPT !.ret = h.data[this], !.data[this] = <<>>]

takeData(h, this) == [h EXCEPT !.ret = h.data[this], !.data[this] = <<>>, !.dataSize[this] = 0]

\* tablePrefix + getUTCFullYear() + (getUTCMonth() + 1) + getUTCDate()
tableName(this, date) == Options[this].tablePrefix \o ToString(date.year) \o ToString(date.month + 1) \o ToString(date.date)

\* table.insert(rows, callback): the sink has the batch from the call on,
\* recorded with the calendar date of the call, which no code reads;
\* it either throws or keeps the callback to call it later
insert(h, this, table, rows, env) ==
  LET h1 == [h EXCEPT !.batches = Append(@, [inst |-> this, table |-> table, rows |-> rows, date |-> env.date])]
  IN IF env.insertThrows THEN [h1 EXCEPT !.threw = TRUE] ELSE [h1 EXCEPT !.inflight = @ \cup {Len(h1.batches)}]

\* a flush that does not test for the empty buffer
flush_always(h, this, env) ==
  LET h1 == [h EXCEPT !.lastFlushTimestamp = env.now, !.flushes = @ + 1]
      h2 == takeData(h1, this)
  IN insert(Log(h2, "Flushing"), this, tableName(this, env.date), h2.ret, env)

\* a flush that hands nothing over while an earlier delivery is outstanding
flush_waits(h, this, env) ==
  LET h1 == [h EXCEPT !.lastFlushTimestamp = env.now, !.flushes = @ + 1]
      h2 == takeData(h1, this)
  IN IF Len(h1.data[this]) = 0 \/ h1.inflight # {} THEN h1
     ELSE insert(Log(h2, "Flushing"), this, tableName(this, env.date), h2.ret, env)

\* a flush that tests for the empty buffer before it records the instant
flush_emptyFirst(h, this, env) ==
  LET h1 == [h EXCEPT !.flushes = @ + 1]
      h2 == takeData([h1 EXCEPT !.lastFlushTimestamp = env.now], this)
  IN IF Len(h1.data[this]) = 0 THEN h1
     ELSE insert(Log(h2, "Flushing"), this, tableName(this, env.date), h2.ret, env)

flush(h, this, env) ==
  LET h1 == [h EXCEPT !.lastFlushTimestamp = env.now, !.flushes = @ + 1]
      h2 == takeData(h1, this)
  IN IF Len(h1.data[this]) = 0 THEN h1
     ELSE insert(Log(h2, "Flushing"), this, tableName(this, env.date), h2.ret, env)

\* a _pushRow that flushes only above the threshold
pushRow_above(h, this, row, env) ==
  LET h1 == [h EXCEPT !.data[this] = Append(@, row), !.dataSize[this] = @ + row.size, !.pushed[this] = Append(@, [row |-> row, at |-> env.now]), !.pushes = @ + 1]
  IN IF h1.dataSize[this] > Options[this].sizeFlushThreshold THEN flush(h1, this, env) ELSE h1

pushRow(h, this, row, env) ==
  LET h1 == [h EXCEPT !.data[this] = Append(@, row), !.dataSize[this] = @ + row.size, !.pushed[this] = Append(@, [row |-> row, at |-> env.now]), !.pushes = @ + 1]
  IN IF h1.dataSize[this] >= Options[this].sizeFlushThreshold THEN flush(h1, this, env) ELSE h1

\* no try and no catch: the exception goes on to the caller
TryCatch_none(h) == h

\* catch (e) { console.log('Unexpected error ...', e.stack); }
TryCatch(h) == IF h.threw THEN Log([h EXCEPT !.threw = FALSE, !.caught = TRUE], "Unexpected error while collecting Firebase bandwidth:") ELSE h

\* row.time = (Date.now() + serverTimeOffset) / 1000, an exact quotient
RowTime(h, env) == [num |-> env.now + h.serverTimeOffset, den |-> 1000]

\* the row with its time and, when options.tag is truthy, its tag
Tagged(this, r, time) ==
  IF Options[this].tag # ""
    THEN [op |-> r.op, size |-> r.size, path |-> r.path, time |-> time, tag |-> Options[this].tag]
    ELSE [op |-> r.op, size |-> r.size, path |-> r.path, time |-> time]

\* a _collectLog that adds the offset of a line to the offset it has
collectLogBody_adds(h, this, message, env) ==
  LET match == Scanned[message].match
      offset == Scanned[message].offset
      parsed == Scanned[message].parsed
      h1 == [h EXCEPT !.out = @ \o parsed.out]
  IN IF ~match.ok
       THEN IF offset.ok THEN [h EXCEPT !.serverTimeOffset = @ + ParseInt(offset.g1.s)] ELSE h
     ELSE IF parsed.threw THEN [h1 EXCEPT !.threw = TRUE]
     ELSE IF ~parsed.ret.def THEN h1
     ELSE pushRow(h1, this, Tagged(this, parsed.ret, RowTime(h1, env)), env)

\* the body of the try block of _collectLog
collectLogBody(h, this, message, env) ==
  LET match == Scanned[message].match
      offset == Scanned[message].offset
      parsed == Scanned[message].parsed
      h1 == [h EXCEPT !.out = @ \o parsed.out]
  IN IF ~match.ok
       THEN IF offset.ok THEN [h EXCEPT !.serverTimeOffset = ParseInt(offset.g1.s)] ELSE h
     ELSE IF parsed.threw THEN [h1 EXCEPT !.threw = TRUE]
     ELSE IF ~parsed.ret.def THEN h1
     ELSE pushRow(h1, this, Tagged(this, parsed.ret, RowTime(h1, env)), env)

collectLog(h, this, message, env) == TryCatch(collectLogBody(h, this, message, env))

\* a late-flush check with the comparison the wrong way round
flushIfLateBody_inverted(h, this, env) == IF env.now - h.lastFlushTimestamp <= Options[this].forcedFlushInterval THEN flush(h, this, env) ELSE h

\* the body of the try block of flushIfLate
flushIfLateBody(h, this, env) == IF env.now - h.lastFlushTimestamp >= Options[this].forcedFlushInterval THEN flush(h, this, env) ELSE h

flushIfLate(h, this, env) == TryCatch(flushIfLateBody(h, this, env))

\* a callback that puts the rows of a failed delivery back into the buffer
insertCallback_requeues(h, this, rows, error, insertErrors) ==
  IF error \/ insertErrors
    THEN Log([h EXCEPT !.data[this] = @ \o rows], "Error sending bandwidth data to BigQuery:")
    ELSE h

\* the callback of table.insert, a closure of flush (this and rows are in
\* its scope): it writes to console.log and nothing else
insertCallback(h, this, rows, error, insertErrors) ==
  LET h1 == IF error THEN Log(h, "Error sending bandwidth data to BigQuery:") ELSE h
  IN IF insertErrors THEN Log(h1, "Error sending bandwidth data to BigQuery:") ELSE h1

(***************************************************************************)
(* The operations                                                          *)
(***************************************************************************)
Store(h) ==
  /\ data' = h.data
  /\ dataSize' = h.dataSize
  /\ lastFlushTimestamp' = h.lastFlushTimestamp
  /\ serverTimeOffset' = h.serverTimeOffset
  /\ batches' = h.batches
  /\ inflight' = h.inflight
  /\ pushed' = h.pushed

\* the record of a call: what was called on which collector with which
\* line, the last-flush instant it found, and what it did
Called(op, this, line, h) == [op |-> op, inst |-> this, line |-> line, since |-> lastFlushTimestamp, flushes |-> h.flushes, pushes |-> h.pushes, caught |-> h.caught, propagated |-> h.threw, out |-> h.out]

NoCall(op) == [op |-> op, inst |-> 0, line |-> <<>>, since |-> 0, flushes |-> 0, pushes |-> 0, caught |-> FALSE, propagated |-> FALSE, out |-> <<>>]

\* module load, then one constructor call per live collector
InitOn(L, D) ==
  /\ now \in StartTimes
  /\ utcDate \in D
  /\ live = L
  /\ alive = TRUE
  /\ lastFlushTimestamp = 0
  /\ serverTimeOffset = 0
  /\ data = [c \in Instances |-> <<>>]
  /\ dataSize = [c \in Instances |-> 0]
  /\ nextTick = [c \in Instances |-> now + Options[c].forcedFlushInterval]
  /\ batches = <<>>
  /\ inflight = {}
  /\ pushed = [c \in Instances |-> <<>>]
  /\ last = NoCall("new")

InitWith(L) == InitOn(L, Dates)

Init == InitWith({1})

\* Firebase's logger calls collector.collectLog(message)
CollectLog(this, message, insertThrows) ==
  /\ alive /\ this \in live
  /\ LET h == collectLog(Heap, this, message, Env(insertThrows))
     IN Store(h) /\ last' = Called("collectLog", this, message, h)
  /\ UNCHANGED <<now, utcDate, live, alive, nextTick>>

\* the timer of setInterval calls flushIfLate, every forcedFlushInterval;
\* an exception that leaves a timer callback ends the process
Tick(this, insertThrows) ==
  /\ alive /\ this \in live
  /\ now = nextTick[this]
  /\ nextTick' = [nextTick EXCEPT ![this] = @ + Options[this].forcedFlushInterval]
  /\ LET h == flushIfLate(Heap, this, Env(insertThrows))
     IN Store(h) /\ last' = Called("flushIfLate", this, <<>>, h) /\ alive' = ~h.threw
  /\ UNCHANGED <<now, utcDate, live>>

\* the collector's owner calls collector.flush()
Flush(this, insertThrows) ==
  /\ alive /\ this \in live
  /\ LET h == flush(Heap, this, Env(insertThrows))
     IN Store(h) /\ last' = Called("flush", this, <<>>, h)
  /\ UNCHANGED <<now, utcDate, live, alive, nextTick>>

\* the sink ends a delivery and calls the callback of insert
InsertCallback(b, error, insertErrors) ==
  /\ alive /\ b \in inflight
  /\ LET h == insertCallback([Heap EXCEPT !.inflight = @ \ {b}], batches[b].inst, batches[b].rows, error, insertErrors)
     IN Store(h) /\ last' = Called("callback", batches[b].inst, <<>>, h)
  /\ UNCHANGED <<now, utcDate, live, alive, nextTick>>

\* a millisecond passes; a timer that is due runs first
Advance ==
  /\ alive
  /\ \A c \in live : now < nextTick[c]
  /\ now' = now + 1
  /\ last' = NoCall("advance")
  /\ UNCHANGED <<utcDate, live, alive, lastFlushTimestamp, serverTimeOffset, data, dataSize, nextTick, batches, inflight, pushed>>

\* the calendar date d1 is before d2
Before(d1, d2) ==
  \/ d1.year < d2.year
  \/ d1.year = d2.year /\ d1.month < d2.month
  \/ d1.year = d2.year /\ d1.month = d2.month /\ d1.date < d2.date

\* Days pass without a line, a call of flush or an outstanding delivery,
\* from an instant of a flush that is one interval before the next tick,
\* with the buffers empty: every tick in between finds the interval
\* elapsed and the buffers empty and sets the last-flush instant to its
\* own instant, so that the state one interval before a later tick is the
\* same but for the date; now counts from the start or the last idle
\* period.
Idle ==
  /\ alive /\ inflight = {}
  /\ \A c \in live : data[c] = <<>> /\ nextTick[c] = now + Options[c].forcedFlushInterval
  /\ lastFlushTimestamp = now
  /\ \E d \in Days : Before(utcDate, d) /\ utcDate' = d
  /\ last' = NoCall("idle")
  /\ UNCHANGED <<now, live, alive, lastFlushTimestamp, serverTimeOffset, data, dataSize, nextTick, batches, inflight, pushed>>

\* the lines of L arrive, while a collector has had fewer than maxPushed rows
Feed(L, maxPushed) == \E c \in Instances, m \in L, t \in BOOLEAN : Len(pushed[c]) < maxPushed /\ CollectLog(c, m, t)

Timer == \E c \in Instances, t \in BOOLEAN : Tick(c, t)

Owner == \E c \in Instances, t \in BOOLEAN : Flush(c, t)

Sink == \E b \in 1..Len(batches), e \in BOOLEAN, ie \in BOOLEAN : InsertCallback(b, e, ie)

\* time passes, for horizon milliseconds
Clock(horizon) == (\A s \in StartTimes : now < s + horizon) /\ Advance

\* one tick period
Period == Options[1].forcedFlushInterval

\* One collector, every operation, over one tick period.
Next == Feed(Lines, MaxPushed) \/ Timer \/ Owner \/ Sink \/ Clock(Period)

Spec == Init /\ [][Next]_vars

\* One collector, every operation, over several tick periods.
NextTime == Feed(TimeLines, TimeRows) \/ Timer \/ Owner \/ Sink \/ Clock(TimeHorizon)

SpecTime == Init /\ [][NextTime]_vars

\* One collector, lines and ticks only, over one tick period.
NextExample == Feed(ExampleLines, ExampleRows) \/ Timer \/ Sink \/ Clock(Period)

SpecExample == Init /\ [][NextExample]_vars

\* One collector, every kind of line, over one tick period.
NextLines == Feed(AllLines, LineRows) \/ Timer \/ Sink \/ Clock(Period)

SpecLines == Init /\ [][NextLines]_vars

\* One collector, every operation, over one tick period on each of several days.
NextDays == Feed(DayLines, DayRows) \/ Timer \/ Owner \/ Sink \/ Clock(Period) \/ Idle

SpecDays == InitOn({1}, Days) /\ [][NextDays]_vars

\* One collector, every operation, rows small enough for several to be pending.
NextSum == Feed(SumLines, SumRows) \/ Timer \/ Owner \/ Sink \/ Clock(Period)

SpecSum == Init /\ [][NextSum]_vars

\* Two collectors of one process, every operation, over several tick periods.
NextTwo == Feed(TwoLines, TwoRows) \/ Timer \/ Owner \/ Sink \/ Clock(TwoHorizon)

SpecTwo == InitWith(Instances) /\ [][NextTwo]_vars

\* One collector, every kind of log-record line, over one tick period.
NextParse == Feed(ParseLines, ParseRows) \/ Timer \/ Sink \/ Clock(Period)

SpecParse == Init /\ [][NextParse]_vars

(***************************************************************************)
(* Properties                                                              *)
(***************************************************************************)
\* the rows of the first n calls of insert made by collector c, in call order
RECURSIVE HandedRows(_, _)
HandedRows(c, n) == IF n = 0 THEN <<>> ELSE HandedRows(c, n - 1) \o (IF batches[n].inst = c THEN batches[n].rows ELSE <<>>)

\* the rows given to _pushRow of collector c, in arrival order
PushedRows(c) == [i \in 1..Len(pushed[c]) |-> pushed[c][i].row]

\* the row of the most recent push to c, in the state after it
NewRow(c) == pushed'[c][Len(pushed'[c])].row

\* C1: at all times the batches handed to the sink, one after the other in
\* hand-over order, followed by the pending buffer, are the pushed rows in
\* arrival order: every pushed row is at exactly one place, in the buffer
\* or in one batch.
C1_EveryRowInOnePlace == \A c \in live : HandedRows(c, Len(batches)) \o data[c] = PushedRows(c)

\* two batches have been handed over, one of them is still with the sink,
\* and a row pushed since then is pending
C1_Witness == Len(batches) >= 2 /\ inflight # {} /\ data[1] # <<>> /\ Len(pushed[1]) = 3

\* C2: a push that brings the accumulated size to the threshold or above
\* calls flush exactly once within the push, and leaves the buffer empty
\* and the accumulated size 0; a push that leaves the size below the
\* threshold calls flush not at all and only appends the row.
C2_PushFlushesAtThreshold ==
  [][\A c \in live : (last'.op = "collectLog" /\ last'.inst = c /\ last'.pushes = 1) =>
       IF dataSize[c] + NewRow(c).size >= Options[c].sizeFlushThreshold
         THEN last'.flushes = 1 /\ data'[c] = <<>> /\ dataSize'[c] = 0
         ELSE last'.flushes = 0 /\ data'[c] = Append(data[c], NewRow(c)) /\ dataSize'[c] = dataSize[c] + NewRow(c).size]_vars

\* a push has just flushed a batch whose sizes add up to the threshold exactly
C2_Witness ==
  /\ last.op = "collectLog" /\ last.pushes = 1 /\ last.flushes = 1
  /\ data[1] = <<>> /\ dataSize[1] = 0
  /\ Len(batches[Len(batches)].rows) = 2
  /\ batches[Len(batches)].rows[1].size + batches[Len(batches)].rows[2].size = Options[1].sizeFlushThreshold

\* the instants at which the rows now pending in c were pushed
PendingSince(c) == [i \in 1..Len(data[c]) |-> pushed[c][Len(pushed[c]) - Len(data[c]) + i].at]

\* C3: with the tick firing every forcedFlushInterval, a flush forced by
\* the tick comes at least one and at most two intervals after the flush
\* before it, and no row is pending for more than two intervals.
C3_ForcedFlushWithinTwoIntervals ==
  /\ \A c \in live : \A i \in 1..Len(data[c]) : now - PendingSince(c)[i] <= 2 * Options[c].forcedFlushInterval
  /\ (last.op = "flushIfLate" /\ last.flushes = 1 /\ last.since # 0) =>
       /\ now - last.since >= Options[last.inst].forcedFlushInterval
       /\ now - last.since <= 2 * Options[last.inst].forcedFlushInterval

\* a tick has just flushed a pending row, later than one interval after the
\* flush before it: the tick in between came too early to flush
C3_Witness ==
  /\ last.op = "flushIfLate" /\ last.flushes = 1 /\ last.since # 0
  /\ now - last.since > Options[1].forcedFlushInterval
  /\ last.out = <<"Flushing">>

\* C4: flushIfLate calls flush not at all when less than the interval has
\* passed since the last flush, and then leaves the buffer, the last-flush
\* instant and the sink as they are; otherwise it calls flush exactly once,
\* and the last-flush instant becomes now, also when the buffer is empty.
C4_FlushIfLate ==
  [][\A c \in live : (last'.op = "flushIfLate" /\ last'.inst = c) =>
       IF now - lastFlushTimestamp < Options[c].forcedFlushInterval
         THEN last'.flushes = 0 /\ UNCHANGED <<data, dataSize, lastFlushTimestamp, batches, inflight>>
         ELSE last'.flushes = 1 /\ lastFlushTimestamp' = now]_vars

\* a tick has just called flush on an empty buffer, after an earlier flush:
\* nothing was handed over and the last-flush instant is now
C4_Witness ==
  /\ last.op = "flushIfLate" /\ last.flushes = 1 /\ last.since # 0
  /\ last.out = <<>> /\ lastFlushTimestamp = now /\ pushed[1] # <<>>

\* C5: when the sink reports a failure for a batch, nothing is put back:
\* the buffer and the accumulated size are unchanged, so the rows pushed
\* since the flush stay pending as they were, and no delivery is started.
C5_FailedBatchDiscarded ==
  [][(last'.op = "callback" /\ last'.out # <<>>) =>
       UNCHANGED <<data, dataSize, batches, pushed, lastFlushTimestamp, serverTimeOffset>> /\ inflight' \subseteq inflight]_vars

\* the sink has just reported a failure, with an error and with insert
\* errors, while a row pushed since the flush is pending
C5_Witness == last.op = "callback" /\ Len(last.out) = 2 /\ data[1] # <<>> /\ dataSize[1] > 0

\* C6: no line and no fault inside the collector (a pattern that fails to
\* match, a fault of the flush that a push or a tick triggers) leaves
\* collectLog or flushIfLate as an exception; after a fault was caught the
\* process is still running, and the line or the tick that comes next is
\* handled as any other: the row of a line is pushed, a late tick flushes.
C6_NoFaultEscapes ==
  /\ [](alive /\ (last.op \in {"collectLog", "flushIfLate"} => ~last.propagated))
  /\ [][last.caught =>
         /\ (last'.op = "collectLog" /\ last'.line \in {LineData, LineListen}) => last'.pushes = 1
         /\ (last'.op = "flushIfLate" /\ now - lastFlushTimestamp >= Options[last'.inst].forcedFlushInterval) => last'.flushes = 1]_vars

\* the flush that a push triggered has just thrown, and the fault was caught
C6_Witness == last.op = "collectLog" /\ last.caught /\ last.pushes = 1 /\ last.flushes = 1 /\ ~last.propagated

\* c hands rows over in this step: one more call of insert, with these rows
Delivers(c, rows) ==
  /\ Len(batches') = Len(batches) + 1
  /\ SubSeq(batches', 1, Len(batches)) = batches
  /\ batches'[Len(batches')].inst = c /\ batches'[Len(batches')].rows = rows

\* C7: while earlier batches are still with the sink, a push appends its
\* row as ever, and a flush, triggered by size, by time or called directly,
\* hands the pending rows over in a new batch.
C7_NeverBlocked ==
  [][\A c \in live : (inflight # {} /\ last'.inst = c) =>
       /\ (last'.op = "collectLog" /\ last'.pushes = 1) =>
            IF dataSize[c] + NewRow(c).size >= Options[c].sizeFlushThreshold
              THEN Delivers(c, Append(data[c], NewRow(c)))
              ELSE data'[c] = Append(data[c], NewRow(c))
       /\ (last'.op = "flushIfLate" /\ now - lastFlushTimestamp >= Options[c].forcedFlushInterval /\ data[c] # <<>>) => Delivers(c, data[c])
       /\ (last'.op = "flush" /\ data[c] # <<>>) => Delivers(c, data[c])]_vars

\* a push has just flushed by size while an earlier batch was, and still
\* is, with the sink
C7_Witness == last.op = "collectLog" /\ last.pushes = 1 /\ last.flushes = 1 /\ Cardinality(inflight) >= 2

\* the timer has not fired yet: every call of flush so far was made by a push
NoTickYet == \E s \in StartTimes : nextTick[1] = s + Options[1].forcedFlushInterval

\* rows of 50 bytes only have been pushed, to a collector with a threshold of 100
FiftyByteRows == Options[1].sizeFlushThreshold = 100 /\ \A i \in 1..Len(pushed[1]) : pushed[1][i].row.size = 50

\* C8, as claimed: with a threshold of 100 bytes and an empty buffer, the
\* third of three pushes of 50 bytes flushes, the sink gets one batch of
\* exactly 3 rows, and the buffer is left empty.
C8_AsClaimed ==
  (NoTickYet /\ FiftyByteRows /\ Len(pushed[1]) = 3 /\ last.op = "collectLog") =>
     /\ last.flushes = 1
     /\ Len(batches) = 1 /\ Len(batches[1].rows) = 3
     /\ data[1] = <<>> /\ dataSize[1] = 0

\* C8, amended: with a threshold of 100 bytes and an empty buffer, the
\* second of three pushes of 50 bytes flushes (the first does not), the sink
\* gets one batch of exactly 2 rows, and the third row is left pending.
C8_FlushOnSecondPush ==
  (NoTickYet /\ FiftyByteRows) =>
     CASE Len(pushed[1]) = 0 -> batches = <<>> /\ data[1] = <<>>
       [] Len(pushed[1]) = 1 -> batches = <<>> /\ data[1] = PushedRows(1) /\ dataSize[1] = 50
       [] Len(pushed[1]) = 2 -> Len(batches) = 1 /\ batches[1].rows = PushedRows(1) /\ data[1] = <<>> /\ dataSize[1] = 0
       [] Len(pushed[1]) = 3 -> /\ Len(batches) = 1 /\ batches[1].rows = SubSeq(PushedRows(1), 1, 2)
                                /\ data[1] = <<PushedRows(1)[3]>> /\ dataSize[1] = 50
       [] OTHER -> TRUE

\* three rows of 50 bytes have been pushed, the third just now
C8_Witness == NoTickYet /\ FiftyByteRows /\ Len(pushed[1]) = 3 /\ last.op = "collectLog" /\ last.pushes = 1

\* the lines with a message type or an action code that is not recognised
UnknownCodeLines == {LineUnknownRead, LineUnknownWrite, LineUnauth}

\* the lines with a code that requires a path and with no path
MissingPathLines == {LineReadNoPath, LineMovedNoPath, LineWriteNoPath, LineWriteEmptyPath, LineSetNoBody}

\* C9: a line whose message type or action code is not recognised, or
\* whose code requires a path that the line does not carry, yields no row
\* and raises no fault, and leaves the buffer, the accumulated size and the
\* clock offset unchanged.
C9_AsClaimed ==
  [][(last'.op = "collectLog" /\ last'.line \in UnknownCodeLines \cup MissingPathLines) =>
       /\ ~last'.caught /\ ~last'.propagated /\ last'.pushes = 0
       /\ UNCHANGED <<data, dataSize, serverTimeOffset>>]_vars

\* the integer that each server-time-offset line carries
Carried == (LineOffset7 :> 7) @@ (LineOffsetMinus5 :> 0 - 5) @@ (LineOffset12 :> 12)

\* C10: the clock offset is 0 at first; a server-time-offset line sets it to
\* the integer the line carries, whatever it was; no other line and no other
\* operation changes it; and a row classified when the offset is o at the
\* instant t has the time (t + o) / 1000.
C10_OffsetIsLatest ==
  /\ serverTimeOffset = 0
  /\ [][/\ (last'.op = "collectLog" /\ last'.line \in DOMAIN Carried) => serverTimeOffset' = Carried[last'.line]
        /\ ~(last'.op = "collectLog" /\ last'.line \in DOMAIN Carried) => serverTimeOffset' = serverTimeOffset
        /\ \A c \in live : (last'.op = "collectLog" /\ last'.inst = c /\ last'.pushes = 1) =>
             NewRow(c).time = [num |-> now + serverTimeOffset, den |-> 1000]]_vars

\* a row classified at the instant t under the offset -5, which a line
\* carried: its time is (t - 5) / 1000
C10_Witness ==
  /\ Len(pushed[1]) = 1 /\ serverTimeOffset = 0 - 5
  /\ last.op = "collectLog" /\ last.pushes = 1
  /\ pushed[1][1].row.time = [num |-> pushed[1][1].at - 5, den |-> 1000]

\* a push of the row r made by the most recent call on c: the row is the
\* last of the buffer or, when the push flushed, the last of the batch
\* handed over
PushedNow(c, r) ==
  /\ last'.pushes = 1 /\ Len(pushed'[c]) = Len(pushed[c]) + 1 /\ NewRow(c) = r
  /\ IF last'.flushes = 0
       THEN data'[c] = Append(data[c], r)
       ELSE batches'[Len(batches')].rows = Append(data[c], r)

\* the path that each read line of type d or m carries in {"p":"<path>"
ReadPath == (LineData :> <<"a","/","b","/","c","d">>) @@ (LineMoved :> <<"a","/","b","/","c","d">>) @@ (LineDataRoot :> <<>>)

\* C11: a line with a read prefix of type d or m and a payload that begins
\* with {"p":"<path>" is classified as one row with op "r" and the path
\* "/" followed by <path>, and the row is pushed to the buffer.
C11_ReadPathPrefixed ==
  [][\A c \in live : (last'.op = "collectLog" /\ last'.inst = c /\ last'.line \in DOMAIN ReadPath) =>
        /\ PushedNow(c, NewRow(c))
        /\ NewRow(c).op = "r"
        /\ NewRow(c).path = <<"/">> \o ReadPath[last'.line]]_vars

\* a child-moved line has put a row of the path /a/b/cd into the buffer
C11_Witness ==
  /\ last.op = "collectLog" /\ last.line = LineMoved /\ Len(data[1]) = 1
  /\ data[1][1].op = "r" /\ data[1][1].path = <<"/","a","/","b","/","c","d">>

\* the path that each write line of action p or m carries in "b":{"p":"<path>"
WritePath == (LineSet :> <<"/","a","/","b","/","c">>) @@ (LineUpdate :> <<"/","a","/","b">>) @@ (LineSetBare :> <<"a","/","b">>)

\* the write lines of the actions q, l, n, auth and s, on which the write
\* pattern matches; three of them carry a path in the body
ProtocolLines == {LineListen, LineListenL, LineUnlisten, LineAuth, LineStats}

\* C12: a line with an empty prefix on which the write pattern matches is
\* classified as one row with op "w": with the captured path, unchanged,
\* for the actions p and m with a path in the body, and with the path
\* /$protocol for the actions q, l, n, auth and s, whatever the body holds.
C12_WritePath ==
  [][\A c \in live : (last'.op = "collectLog" /\ last'.inst = c) =>
        /\ last'.line \in DOMAIN WritePath =>
              PushedNow(c, NewRow(c)) /\ NewRow(c).op = "w" /\ NewRow(c).path = WritePath[last'.line]
        /\ last'.line \in ProtocolLines =>
              PushedNow(c, NewRow(c)) /\ NewRow(c).op = "w" /\ NewRow(c).path = <<"/","$","p","r","o","t","o","c","o","l">>]_vars

\* a listen line with the path /a/b/c/de in its body has put a row of the
\* path /$protocol into the buffer
C12_Witness ==
  /\ last.op = "collectLog" /\ last.line = LineListen /\ Len(data[1]) = 1
  /\ data[1][1].op = "w" /\ data[1][1].path = <<"/","$","p","r","o","t","o","c","o","l">>

\* the message type of each read line that yields a row: the code after
\* "handleServerMessage", and none after "from server:" when the payload
\* follows the marker at once
ReadType == (LineData :> <<"d">>) @@ (LineDataRoot :> <<"d">>) @@ (LineMoved :> <<"m">>) @@ (LineDebug :> <<"s","d">>) @@ (LineResp :> <<>>)

\* the payload of each line that yields a row
Payload ==
  (LineData :> ValData) @@ (LineDataRoot :> ValDataRoot) @@ (LineMoved :> ValData) @@ (LineDebug :> ValResp) @@ (LineResp :> ValResp) @@
  (LineSet :> ValSet) @@ (LineSetBare :> ValSetBare) @@ (LineUpdate :> ValUpdate) @@ (LineListen :> ValListen) @@
  (LineListenL :> ValListenL) @@ (LineUnlisten :> ValUnlisten) @@ (LineAuth :> ValAuth) @@ (LineStats :> ValStats)

\* C13: the size of a read row is the length of the payload plus 16, plus
\* 7 and the length of the message type when the type is not empty; the
\* size of a write row is the length of the payload plus 16.
C13_Sizes ==
  [][\A c \in live : (last'.op = "collectLog" /\ last'.inst = c /\ last'.pushes = 1 /\ last'.line \in DOMAIN Payload) =>
        LET n == Len(Payload[last'.line])
            line == last'.line
        IN IF line \in DOMAIN ReadType
             THEN /\ NewRow(c).op = "r"
                  /\ NewRow(c).size = (IF ReadType[line] # <<>> THEN n + 16 + 7 + Len(ReadType[line]) ELSE n + 16)
             ELSE NewRow(c).op = "w" /\ NewRow(c).size = n + 16]_vars

\* a debug line with a payload of 14 characters has put a row of
\* 14 + 16 + 7 + 2 bytes into the buffer, and so the accumulated size is 39
C13_Witness ==
  /\ last.op = "collectLog" /\ last.line = LineDebug /\ Len(data[1]) = 1
  /\ data[1][1].size = 39 /\ dataSize[1] = 39

\* the path is not empty and begins with "/"
Rooted(path) == path # <<>> /\ path[1] = "/"

\* C14: every row in a buffer and every row of a batch handed to the sink,
\* whatever the lines were, has a path that is not empty and begins with "/".
C14_AsClaimed ==
  /\ \A c \in live : \A i \in 1..Len(data[c]) : Rooted(data[c][i].path)
  /\ \A b \in 1..Len(batches) : \A i \in 1..Len(batches[b].rows) : Rooted(batches[b].rows[i].path)

\* C15: for one table prefix the name of the destination table is a
\* one-to-one function of the UTC calendar date of the flush: two batches
\* of a collector go to the same table exactly when they were handed over
\* on the same date.
C15_AsClaimed ==
  \A a \in 1..Len(batches), b \in 1..Len(batches) :
     batches[a].inst = batches[b].inst => (batches[a].table = batches[b].table <=> batches[a].date = batches[b].date)

\* C16: two collectors of one process do not influence each other's
\* flushing: a call on one collector leaves the buffer and the accumulated
\* size of the other as they are, and does not postpone the other's forced
\* flush, so that a collector with pending rows is flushed by its own tick
\* within two intervals of its own last flush; its pending rows were
\* pushed after that flush, so none of them is pending for more than two
\* intervals.
C16_AsClaimed ==
  /\ [][\A c \in live, d \in live : (c # d /\ last'.inst = c) => data'[d] = data[d] /\ dataSize'[d] = dataSize[d]]_vars
  /\ [](\A c \in live : \A i \in 1..Len(data[c]) : now - PendingSince(c)[i] <= 2 * Options[c].forcedFlushInterval)

\* the lines with an empty prefix and a payload on which the write pattern
\* fails: after "b":{ comes no quote
UnmatchedWriteLines == {LineUnauth, LineSetNoBody}

\* C17: on a line with an empty prefix and a payload that the write
\* pattern does not match, the parsing of the write message ends without a
\* fault: it writes the failed-to-match diagnostic and nothing else, it
\* yields no row, and nothing is pushed.
C17_AsClaimed ==
  [][(last'.op = "collectLog" /\ last'.line \in UnmatchedWriteLines) =>
       /\ ~last'.caught /\ ~last'.propagated
       /\ last'.out = <<"Failed to match write log:">>
       /\ last'.pushes = 0 /\ UNCHANGED <<data, dataSize, pushed>>]_vars

\* the payload of each line with a prefix that begins with "from server:":
\* the payload follows the marker at once in one, and the code d comes in
\* between in the other
FromServerPayload == (LineResp :> ValResp) @@ (LineFromServerTyped :> ValData)

\* C18: a line with a prefix of the origin "from server:" has the empty
\* message type, whatever follows the marker in the prefix: it yields a
\* row with op "r", the path /$protocol and the length of the payload plus
\* 16 as its size; a line of the origin "handleServerMessage" has the
\* code of its prefix as its message type.
C18_AsClaimed ==
  [][\A c \in live : (last'.op = "collectLog" /\ last'.inst = c) =>
        /\ last'.line \in DOMAIN FromServerPayload =>
              /\ PushedNow(c, NewRow(c))
              /\ NewRow(c).op = "r"
              /\ NewRow(c).path = <<"/","$","p","r","o","t","o","c","o","l">>
              /\ NewRow(c).size = Len(FromServerPayload[last'.line]) + 16
        /\ last'.line \in DOMAIN ReadType \ DOMAIN FromServerPayload =>
              /\ PushedNow(c, NewRow(c))
              /\ NewRow(c).size = Len(Payload[last'.line]) + 16 + 7 + Len(ReadType[last'.line])]_vars

\* C19: a flush of an empty buffer changes the last-flush instant and
\* nothing else: no batch is handed to the sink, and the buffer and the
\* accumulated size stay empty and 0; so no batch that the sink has ever
\* been given is empty.
C19_EmptyFlush ==
  /\ [](\A b \in 1..Len(batches) : batches[b].rows # <<>>)
  /\ [][\A c \in live : (last'.op \in {"flush", "flushIfLate"} /\ last'.inst = c /\ last'.flushes = 1 /\ data[c] = <<>>) =>
          /\ lastFlushTimestamp' = now
          /\ data'[c] = <<>> /\ dataSize'[c] = 0 /\ last'.out = <<>>
          /\ UNCHANGED <<data, dataSize, batches, inflight, pushed, serverTimeOffset>>]_vars

\* the owner has just flushed an empty buffer, after a batch was handed
\* over earlier: the last-flush instant moved to now and the sink still
\* has that one batch
C19_Witness ==
  /\ last.op = "flush" /\ last.flushes = 1 /\ last.out = <<>>
  /\ data[1] = <<>> /\ dataSize[1] = 0 /\ Len(batches) = 1
  /\ last.since < now /\ lastFlushTimestamp = now

\* the sum of the sizes of the rows of s
RECURSIVE SumSizes(_)
SumSizes(s) == IF s = <<>> THEN 0 ELSE s[1].size + SumSizes(Tail(s))

\* C20: in every state the accumulated size of a collector is the sum of
\* the sizes of its pending rows, and it is 0 exactly when no row is
\* pending or every pending row has the size 0.
C20_SizeIsSum ==
  \A c \in live :
     /\ dataSize[c] = SumSizes(data[c])
     /\ dataSize[c] = 0 <=> \A i \in 1..Len(data[c]) : data[c][i].size = 0

\* after a batch was handed over, two rows of 30 and 50 bytes are pending
C20_Witness == Len(batches) = 1 /\ Len(data[1]) = 2 /\ dataSize[1] = 80

====
